---- MODULE Spec2Model ----
(***************************************************************************)
(* A model of certificate.py: the module function calculate_height and the *)
(* three generators CertificateGenerator (reference certificate),          *)
(* CertificateGenerator2 (study-status certificate) and                    *)
(* CertificateGenerator3 (draft-board certificate).                        *)
(*                                                                         *)
(* Markup strings are sequences of string pieces: the literal pieces of    *)
(* the f-strings (Cyrillic and Kyrgyz literals transliterated to ASCII)    *)
(* alternate with the formatted field values.  Floats are exact rationals. *)
(***************************************************************************)
EXTENDS Integers, Sequences, FiniteSets, TLC

\* ------------------------------------------------------------------ bounds
\* native image sizes range over 0..MaxDim pixels
MaxDim == 2
\* calculate_height is also called directly with widths 0..MaxTargetWidth
MaxTargetWidth == 3
\* normative_duration ranges over -1..MaxDuration years
MaxDuration == 6
\* semesters lists have at most MaxSemesters entries
MaxSemesters == 3
\* course_num ranges over 1..MaxCourse
MaxCourse == 3
\* the paginator lays the flow out on 1..MaxPages pages
MaxPages == 2

\* ------------------------------------------------- constants of the program
\* target_width=80, the default of _add_image_paragraph
DefaultTargetWidth == 80
\* signature_width = 80 in CertificateGenerator3._draw_seal
SignatureWidth == 80
\* seal width and height, 100 in the three _draw_seal
SealSize == 100
\* doc.width of SimpleDocTemplate(pagesize=letter): 612 - 2 * 72 points
DocWidth == 468
\* Spacer(1, height) with height=12
SpacerHeight == 12

\* ------------------------------------------------------------- exceptions
Raise(name) == [err |-> name]
IsErr(r) == "err" \in DOMAIN r

\* ------------------------------------------------------------ float values
\* A float is modelled as the exact rational num/den in lowest terms, den > 0.
RECURSIVE Gcd(_, _)
Gcd(a, b) == IF b = 0 THEN a ELSE Gcd(b, a % b)

Abs(n) == IF n < 0 THEN 0 - n ELSE n

Float(n, d) ==
  LET g == Gcd(Abs(n), Abs(d))
      s == IF d < 0 THEN 0 - 1 ELSE 1
  IN [num |-> (s * n) \div g, den |-> (s * d) \div g]

\* Python's true division x / y of two ints
IntDiv(x, y) == IF y = 0 THEN Raise("ZeroDivisionError") ELSE Float(x, y)

\* Python's true division x / f of an int by a float
DivByFloat(x, f) ==
  IF f.num = 0 THEN Raise("ZeroDivisionError") ELSE Float(x * f.den, f.num)

\* str() of a float, as it is substituted in an f-string
FormatFloat(f) ==
  IF f.den = 1 THEN ToString(f.num) \o ".0"
  ELSE ToString(f.num) \o "/" \o ToString(f.den)

\* ------------------------------------------------------- calculate_height
calculate_height_inverted(original_width, original_height, target_width) ==
  LET aspect_ratio == IntDiv(original_height, original_width)
  IN IF IsErr(aspect_ratio) THEN aspect_ratio
     ELSE DivByFloat(target_width, aspect_ratio)

calculate_height_zero_guard(original_width, original_height, target_width) ==
  IF original_width = 0 THEN Float(0, 1)
  ELSE LET aspect_ratio == IntDiv(original_width, original_height)
       IN IF IsErr(aspect_ratio) THEN aspect_ratio
          ELSE DivByFloat(target_width, aspect_ratio)

calculate_height(original_width, original_height, target_width) ==
  LET aspect_ratio == IntDiv(original_width, original_height)
  IN IF IsErr(aspect_ratio) THEN aspect_ratio
     ELSE DivByFloat(target_width, aspect_ratio)

\* ------------------------------------------------------------ flow blocks
add_spacer == [kind |-> "Spacer", width |-> 1, height |-> SpacerHeight]

add_paragraph(text) == [kind |-> "Paragraph", text |-> text]

FlowImage(data, width, height) ==
  [kind |-> "Image", data |-> data, width |-> width, height |-> height]

\* ------------------------------------------------------------ file system
\* The raster files of test_images, and a path that names no file.
ImageFiles == {"seal.jpg", "signature.png", "signature2.png", "signature3.png"}
MissingFile == "nonexistent.png"

Dims == [w : 0..MaxDim, h : 0..MaxDim]
NotDecoded == [decoded |-> FALSE]

\* Image(path).imageWidth / imageHeight and ImageReader(path).getSize()
ImageSize(files, path) ==
  IF path \in ImageFiles THEN files[path] ELSE Raise("OSError")

\* The seal is drawn at a size the code fixes and its own size is never read:
\* seal.jpg is followed on its positive sizes only.
SealDims == {d \in Dims : d.w >= 1 /\ d.h >= 1}

SizesOf(path) == IF path = "seal.jpg" THEN SealDims ELSE Dims

\* The first decode of a file fixes its native size; later decodes see the same.
Decoded(files, paths) ==
  LET need == {p \in ImageFiles \cap paths : files[p] = NotDecoded}
  IN { [p \in ImageFiles |-> IF p \in need THEN g[p] ELSE files[p]] :
         g \in {h \in [need -> Dims] : \A p \in need : h[p] \in SizesOf(p)} }

\* str() of an int, as it is substituted in an f-string
Str(n) == ToString(n)

\* code128 encodes ASCII only: python-barcode raises on any other character
NonAsciiPayloads == {"U+2116-7"}
Code128(payload) ==
  IF payload \in NonAsciiPayloads THEN Raise("IllegalCharacterError")
  ELSE [symbology |-> "code128", payload |-> payload]

\* qrcode.QRCode.add_data takes any string
QRCode(payload) == [symbology |-> "qr", payload |-> payload]

\* ------------------------------------------------ shared: _add_image_paragraph
\* lines 99-104 and 217-221 are the same method
add_image_paragraph(files, text, image_path, target_width) ==
  LET size == ImageSize(files, image_path)
  IN IF IsErr(size) THEN size
     ELSE LET adjusted_height == calculate_height(size.w, size.h, target_width)
          IN IF IsErr(adjusted_height) THEN adjusted_height
             ELSE add_paragraph(<<"<font size=10 color=black>", text, " <img src='",
                                  image_path, "' width='", Str(target_width),
                                  "' height='", FormatFloat(adjusted_height),
                                  "'/></font>">>)

\* Evaluating a list display left to right: the first exception wins.
RECURSIVE FirstErr(_)
FirstErr(items) ==
  IF items = <<>> THEN <<>>
  ELSE IF IsErr(Head(items)) THEN <<Head(items)>>
  ELSE FirstErr(Tail(items))

\* ------------------------------------------------------ CertificateGenerator
CG1_Args ==
  [file_path : {"certificate.pdf"},
   student_name : {"FIO studenta"},
   group_name : {"Gruppa"},
   direction_number : {"0000000"},
   direction_name : {"Nazvanie bakalavriata"},
   study_type : {"ochnaya", "zaochnaya"},
   level : {"bakalavr"},
   faculty_name : {"Nazvanie fakulteta"},
   issue_date : {"17.01.2023"},
   course_num : 1..MaxCourse,
   certificate_num : {"1-1111-11111111-1", "10-23-17-204", "U+2116-7"},
   dean_signature_path : {"signature.png", MissingFile},
   secretary_signature_path : {"signature2.png", MissingFile},
   seal_image_path : {"seal.jpg", MissingFile},
   ministry : {"MINISTERSTVO OBRAZOVANIYA I NAUKI STRANY"},
   university_name : {"Universitet Silk Road Innovations"}]

\* __init__ copies every argument to a field of the same name
CG1_init(a) == a

CG1_draw_seal_swallow(self, seal_image_path) ==
  [draws |-> IF seal_image_path \in ImageFiles
             THEN <<[image |-> seal_image_path, x |-> DocWidth - 75, y |-> 260,
                     width |-> SealSize, height |-> SealSize]>>
             ELSE <<>>,
   err |-> "none"]

CG1_draw_seal(self, seal_image_path) ==
  IF seal_image_path \in ImageFiles
  THEN [draws |-> <<[image |-> seal_image_path, x |-> DocWidth - 75, y |-> 260,
                     width |-> SealSize, height |-> SealSize]>>,
        err |-> "none"]
  ELSE [draws |-> <<>>, err |-> "OSError"]

CG1_generate_barcode_image_name(self) ==
  LET barcode_data == self.student_name
      code128_img == Code128(barcode_data)
  IN IF IsErr(code128_img) THEN code128_img ELSE FlowImage(code128_img, 150, 30)

CG1_generate_barcode_image(self) ==
  LET barcode_data == self.certificate_num
      code128_img == Code128(barcode_data)
  IN IF IsErr(code128_img) THEN code128_img ELSE FlowImage(code128_img, 150, 30)

CG1_add_title(self) ==
  add_paragraph(<<"<font size=12 color=black>", self.ministry, "<br/>",
                  self.university_name, "<br/>", self.direction_name, "</font>">>)

CG1_add_ref_number(self) ==
  add_paragraph(<<"<font size=12 color=black>SPRAVKA No ", self.certificate_num,
                  "<br/><br/>Nastoyashchaya spravka podtverzhdaet to, chto</font>">>)

CG1_add_student_info(self) ==
  add_paragraph(<<"<font size=12 color=black>", self.student_name,
                  "<br/>deystvitelno yavlyaetsya studentom (koy) ",
                  Str(self.course_num), "-kursa", " gruppy ", self.group_name,
                  "<br/>napravlenii: ", self.direction_number, ". ",
                  self.direction_name, " (", self.study_type, ", ", self.level,
                  ")<br/>", self.faculty_name, "</font>">>)

CG1_add_issue_date(self) ==
  add_paragraph(<<"<font size=10 color=black>Spravka vydana po mestu trebovaniya.<br/><br/>",
                  self.issue_date, "</font>">>)

CG1_add_signatures(self, files) ==
  LET dean_signature ==
        add_image_paragraph(files, "Dekan (Direktor):", self.dean_signature_path,
                            DefaultTargetWidth)
      secretary_signature ==
        add_image_paragraph(files, "Sekretar (metodist) fakulteta:",
                            self.secretary_signature_path, DefaultTargetWidth)
  IN IF IsErr(dean_signature) THEN <<dean_signature>>
     ELSE IF IsErr(secretary_signature) THEN <<secretary_signature>>
     ELSE <<add_spacer, add_spacer, dean_signature, add_spacer, add_spacer,
            secretary_signature>>

\* the list display of generate_certificate, lines 135-137
CG1_content_barcode_first(self, files) ==
  <<CG1_add_title(self), add_spacer, CG1_add_ref_number(self), add_spacer,
    CG1_add_student_info(self), add_spacer, CG1_generate_barcode_image(self),
    add_spacer, CG1_add_issue_date(self), add_spacer>>
  \o CG1_add_signatures(self, files)

CG1_content(self, files) ==
  <<CG1_add_title(self), add_spacer, CG1_add_ref_number(self), add_spacer,
    CG1_add_student_info(self), add_spacer, CG1_add_issue_date(self), add_spacer,
    CG1_generate_barcode_image(self), add_spacer>>
  \o CG1_add_signatures(self, files)

\* the images the flow of generate_certificate decodes
CG1_reads(self) == {self.dean_signature_path, self.secretary_signature_path}

\* ----------------------------------------------------- CertificateGenerator2
\* normative_duration is declared int; a caller can pass a str all the same
Durations ==
  [type : {"int"}, value : (0 - 1)..MaxDuration] \cup {[type |-> "str", value |-> 4]}

\* a semesters entry is a dict; the last one lacks the key "name"
SemesterEntries ==
  {[name |-> "osenniy semestr", start |-> "01.09.2022", end |-> "31.12.2022"],
   [name |-> "vesenniy semestr", start |-> "01.02.2023", end |-> "31.05.2023"],
   [start |-> "01.06.2023", end |-> "31.08.2023"]}

SemesterLists ==
  UNION {[1..n -> SemesterEntries] : n \in 0..MaxSemesters}

CG2_Args ==
  [file_path : {"certificate2.pdf"},
   student_name : {"Imya Familiya Otchestvo"},
   date_of_birth : {"15.02.2004"},
   course_num : {3},
   group_name : {"Gruppa"},
   faculty_name : {"Nazvanie fakulteta"},
   study_form : {"ochnaya"},
   period_start : {2021},
   period_end : {2025},
   normative_duration : Durations,
   to_the_authority : {"posolstvo Germanii"},
   certificate_num : {"10-23-17-204", "1-1111-11111111-1"},
   executor_name : {"FIO ispolnitelya"},
   execution_date : {"14.11.2023"},
   qr_code_data : {"something", "10-23-17-204"},
   project_authority_name : {"FIO"},
   project_authority_role : {"Prorektor po UR"},
   project_authority_sign_path : {"signature2.png", MissingFile},
   ministry : {"MINISTERSTVO OBRAZOVANIYA I NAUKI STRANY"},
   university_name : {"Universitet Silk Road Innovations"},
   seal_image_path : {"seal.jpg", MissingFile},
   semesters : SemesterLists]

\* __init__ copies every argument to a field of the same name, unchecked
CG2_init(a) == a

CG2_draw_seal(self, seal_image_path) ==
  IF seal_image_path \in ImageFiles
  THEN [draws |-> <<[image |-> seal_image_path, x |-> DocWidth - 75, y |-> 125,
                     width |-> SealSize, height |-> SealSize]>>,
        err |-> "none"]
  ELSE [draws |-> <<>>, err |-> "OSError"]

CG2_generate_qr_code_image(self) ==
  FlowImage(QRCode(self.qr_code_data), 100, 100)

CG2_add_title(self) ==
  add_paragraph(<<"<font size=12 color=black>", self.ministry, "<br/>",
                  self.university_name, "<br/>", self.faculty_name, "</font>">>)

CG2_add_reference(self) ==
  add_paragraph(<<"<font size=12 color=black>SPRAVKA<br/><br/>Dana studentu ",
                  self.student_name, ". ", self.date_of_birth,
                  " goda rozhdeniya, v tom, chto on(a) deystvitelno yavlyaetsya studentom ",
                  Str(self.course_num), "-kursa, gruppy ", self.group_name, ", ",
                  self.faculty_name, " (", self.study_form, ")</font>">>)

\* the conditional expression of line 235, on an int
declination_inclusive(normative_duration) ==
  IF normative_duration >= 1 /\ normative_duration <= 5 THEN "goda"
  ELSE IF normative_duration = 1 THEN "god"
  ELSE "let"

declination(normative_duration) ==
  IF normative_duration > 1 /\ normative_duration < 5 THEN "goda"
  ELSE IF normative_duration = 1 THEN "god"
  ELSE "let"

CG2_add_study_period(self) ==
  IF self.normative_duration.type # "int" THEN Raise("TypeError")
  ELSE add_paragraph(<<"<font size=12 color=black>Forma obucheniya: ", self.study_form,
                       "<br/>Period obucheniya: s ", Str(self.period_start), " po ",
                       Str(self.period_end), "<br/>Normativnyy srok osvoeniya: ",
                       Str(self.normative_duration.value), " ",
                       declination(self.normative_duration.value), " </font>">>)

CG2_add_to_the_authority(self) ==
  add_paragraph(<<"<font size=12 color=black>Spravka vydana v ",
                  self.to_the_authority, "</font>">>)

\* the for loop of lines 247-248: periods_text += ... for each period, in order
RECURSIVE periods_text_loop(_, _)
periods_text_loop(periods_text, semesters) ==
  IF semesters = <<>> THEN [text |-> periods_text]
  ELSE LET period == Head(semesters)
       IN IF {"name", "start", "end"} \subseteq DOMAIN period
          THEN periods_text_loop(
                 periods_text \o <<"<br/>- ", period.name, " s ", period.start,
                                   " po ", period.end>>, Tail(semesters))
          ELSE Raise("KeyError")

CG2_add_current_year_periods_drop_last(self) ==
  LET periods_text ==
        periods_text_loop(
          <<"<font size=12 color=black>Sroki obucheniya v tekushchem uchebnom godu:</font>">>,
          SubSeq(self.semesters, 1, Len(self.semesters) - 1))
  IN IF IsErr(periods_text) THEN periods_text ELSE add_paragraph(periods_text.text)

CG2_add_current_year_periods(self) ==
  LET periods_text ==
        periods_text_loop(
          <<"<font size=12 color=black>Sroki obucheniya v tekushchem uchebnom godu:</font>">>,
          self.semesters)
  IN IF IsErr(periods_text) THEN periods_text ELSE add_paragraph(periods_text.text)

CG2_add_unique_number(self) ==
  add_paragraph(<<"<font size=12 color=black>Unikalnyy nomer dokumenta: ",
                  self.certificate_num, "</font>">>)

CG2_add_executor_and_date(self) ==
  add_paragraph(<<"<font size=12>Ispolnitel: ", self.executor_name, ", ",
                  self.execution_date, "</font>">>)

CG2_add_signatures(self, files) ==
  LET project_authority_signature ==
        add_image_paragraph(files, self.project_authority_role \o ", "
                                   \o self.project_authority_name \o ":",
                            self.project_authority_sign_path, DefaultTargetWidth)
  IN IF IsErr(project_authority_signature) THEN <<project_authority_signature>>
     ELSE <<add_spacer, project_authority_signature>>

\* the list display of generate_certificate, lines 265-268
CG2_content(self, files) ==
  <<CG2_add_title(self), add_spacer, CG2_add_reference(self), add_spacer,
    CG2_add_study_period(self), add_spacer, CG2_add_to_the_authority(self),
    add_spacer, CG2_add_current_year_periods(self), add_spacer,
    CG2_add_unique_number(self), add_spacer, CG2_add_executor_and_date(self),
    add_spacer, CG2_generate_qr_code_image(self), add_spacer, add_spacer>>
  \o CG2_add_signatures(self, files)

\* the images the flow of generate_certificate decodes
CG2_reads(self) == {self.project_authority_sign_path}

\* ----------------------------------------------------- CertificateGenerator3
CG3_Args ==
  [file_path : {"certificate3.pdf"},
   ministry : {"MINISTERSTVO OBRAZOVANIYA I NAUKI STRANY"},
   university : {"Universitet Silk Road Innovations"},
   university_address : {"Adres universiteta"},
   full_name : {"Imya Familiya Otchestvo"},
   birthday : {"01.01.2000"},
   year_of_admission : {"2021"},
   faculty_name : {"IKTiII"},
   date_of_admission_dd_mm_yyyy : {"01.09.2021"},
   order_number : {"123"},
   course_num : {"3"},
   type_of_study_ru : {"ochnogo", "zaochnogo", "vechernego"},
   license : {"AL317"},
   year_of_license : {"2004"},
   year_of_finish_yyyy_mm : {"2025.05"},
   district : {"Voenkomat's district"},
   seal_image_path : {"seal.jpg", MissingFile},
   signature1_path : {"signature.png", MissingFile},
   signature2_path : {"signature2.png", MissingFile},
   signature3_path : {"signature3.png"}]

\* lines 311-314: the Kyrgyz study-mode word derived from the Russian one
type_of_study_kg_strict(type_of_study_ru) ==
  IF type_of_study_ru = "ochnogo" THEN "kunduzgu"
  ELSE IF type_of_study_ru = "zaochnogo" THEN "kechki (syrttan okuu)"
  ELSE "kunduzgu"

type_of_study_kg(type_of_study_ru) ==
  IF type_of_study_ru = "ochnogo" THEN "kunduzgu"
  ELSE "kechki (syrttan okuu)"

\* __init__ copies the arguments and adds the derived field
CG3_init(a) ==
  [f \in DOMAIN a \cup {"type_of_study_kg"} |->
     IF f = "type_of_study_kg" THEN type_of_study_kg(a.type_of_study_ru) ELSE a[f]]

\* one signature of _draw_seal: getSize, calculate_height, drawImage
CG3_draw_signature(files, path, x) ==
  LET size == ImageSize(files, path)
  IN IF IsErr(size) THEN size
     ELSE LET height == calculate_height(size.w, size.h, SignatureWidth)
          IN IF IsErr(height) THEN height
             ELSE [image |-> path, x |-> x, y |-> 430, width |-> SignatureWidth,
                   height |-> height]

\* the drawings made until the first exception, and that exception
RECURSIVE DrawAll(_, _)
DrawAll(done, todo) ==
  IF todo = <<>> THEN [draws |-> done, err |-> "none"]
  ELSE IF IsErr(Head(todo)) THEN [draws |-> done, err |-> Head(todo).err]
  ELSE DrawAll(Append(done, Head(todo)), Tail(todo))

CG3_draw_seal(self, files) ==
  DrawAll(<<>>,
    <<IF self.seal_image_path \in ImageFiles
      THEN [image |-> self.seal_image_path, x |-> DocWidth - SealSize - 25, y |-> 300,
            width |-> SealSize, height |-> SealSize]
      ELSE Raise("OSError"),
      CG3_draw_signature(files, self.signature1_path, 100),
      CG3_draw_signature(files, self.signature2_path, 200),
      CG3_draw_signature(files, self.signature3_path, 300)>>)

\* the images _draw_seal measures
CG3_reads(self) == {self.signature1_path, self.signature2_path, self.signature3_path}

\* the two paragraphs of generate_certificate, lines 351-376
CG3_content(self) ==
  <<add_paragraph(<<self.ministry, "<br/>", self.university, "<br/>",
                    self.university_address>>),
    add_paragraph(<<"<font size=20 color=black>MAALYMKAT / SPRAVKA<br/><br/></font>",
                    "<font size=15>Chakyraluuchu (Vydana prizyvniku): ", self.full_name,
                    "<br/></font>", self.birthday, " - zhyly tuulgan, sebebi al ",
                    self.year_of_admission, " - zhyly ", self.university,
                    "<br/>(Polnoe naimenovanie obrazovatelnoy organizatsii): ",
                    self.faculty_name, "<br/>", self.date_of_admission_dd_mm_yyyy,
                    " zhyl No", self.order_number,
                    " buyrugu menen kabyl alyngan.<br/>(Zachislen prikazom No",
                    self.order_number, " ot ", self.date_of_admission_dd_mm_yyyy,
                    " goda.)<br/>zhana azyrky ubakta ", self.course_num,
                    " kursta (klassta) ", self.type_of_study_kg,
                    " bolumundo okup zhatat.<br/>i v nastoyashchee vremya obuchaetsya na ",
                    self.course_num, " kurse (klasse) ", self.type_of_study_ru,
                    " otdeleniya.<br/>Litsenziya (akkreditatsiya) No", self.license, " ",
                    self.year_of_license,
                    " zhyly berilgen.<br/>Litsenziya vydana.<br/>Okuu zhayyn ",
                    self.year_of_finish_yyyy_mm,
                    " ayaktayt Srok okonchaniya uchebnogo zavedeniya<br/>Maalymkat ",
                    self.district,
                    " rayonduk askerdik komissariatyna korsotuu uchun berilgen.",
                    "<br/>Spravka vydana dlya predostavleniya v voennyy komissariat",
                    "<br/><br/><br/>M.P.________<br/>(Podpis rukovoditelya)<br/>(Forma No26)">>)>>

\* ------------------------------------------------------------------- state
VARIABLES
  entry,         \* the entry point of the module this call exercises
  args,          \* the arguments the caller passes
  gen,           \* the generator object: its fields after __init__
  fs,            \* the native size of each image file, once decoded
  pc,            \* where the call stands
  content,       \* the flow handed to doc.build
  error,         \* the exception that reached the caller, or "none"
  page,          \* the pages the paginator has rendered
  overlayCalls,  \* the page numbers at which the overlay callback ran
  canvas,        \* the overlay drawings, each with its page
  outputFile,    \* whether a file has been written at file_path
  result,        \* the value calculate_height returned
  kept           \* the flow of an earlier call, to compare later ones with

vars == <<entry, args, gen, fs, pc, content, error, page, overlayCalls, canvas,
          outputFile, result, kept>>

Generators == {"CertificateGenerator", "CertificateGenerator2", "CertificateGenerator3"}

NoObject == [constructed |-> FALSE]
Pending == [pending |-> TRUE]

\* direct calls of calculate_height
CalcArgs ==
  [original_width : (0 - 1)..MaxDim,
   original_height : (0 - 1)..MaxDim,
   target_width : (0..MaxTargetWidth) \cup {DefaultTargetWidth}]

ArgsOf(e) ==
  CASE e = "CertificateGenerator" -> CG1_Args
    [] e = "CertificateGenerator2" -> CG2_Args
    [] e = "CertificateGenerator3" -> CG3_Args
    [] e = "calculate_height" -> CalcArgs

Init ==
  /\ entry \in Generators \cup {"calculate_height"}
  /\ args \in ArgsOf(entry)
  /\ gen = NoObject
  /\ fs = [p \in ImageFiles |-> NotDecoded]
  /\ pc = IF entry = "calculate_height" THEN "Call" ELSE "New"
  /\ content = <<>>
  /\ error = "none"
  /\ page = 0
  /\ overlayCalls = <<>>
  /\ canvas = <<>>
  /\ outputFile = FALSE
  /\ result = Pending
  /\ kept = {}

\* ---------------------------------------------------------------- dispatch
InitOf(e, a) ==
  CASE e = "CertificateGenerator" -> CG1_init(a)
    [] e = "CertificateGenerator2" -> CG2_init(a)
    [] e = "CertificateGenerator3" -> CG3_init(a)

FlowReads(e, self) ==
  CASE e = "CertificateGenerator" -> CG1_reads(self)
    [] e = "CertificateGenerator2" -> CG2_reads(self)
    [] e = "CertificateGenerator3" -> {}

ContentOf(e, self, files) ==
  CASE e = "CertificateGenerator" -> CG1_content(self, files)
    [] e = "CertificateGenerator2" -> CG2_content(self, files)
    [] e = "CertificateGenerator3" -> CG3_content(self)

\* the lambda passed as onFirstPage
DrawSeal(e, self, files) ==
  CASE e = "CertificateGenerator" -> CG1_draw_seal(self, self.seal_image_path)
    [] e = "CertificateGenerator2" -> CG2_draw_seal(self, self.seal_image_path)
    [] e = "CertificateGenerator3" -> CG3_draw_seal(self, files)

\* the images the overlay callback decodes: the seal it draws and, in
\* CertificateGenerator3, the signatures it measures
OverlayReads(e, self) ==
  {self.seal_image_path}
    \cup (IF e = "CertificateGenerator3" THEN CG3_reads(self) ELSE {})

\* doc.build(content, onFirstPage=lambda ...): the callback of the first page
FirstPageHook(e) == "draw_seal"

\* doc.build is given no onLaterPages: the paginator's default does nothing
LaterPagesHook_draw_seal(e) == "draw_seal"

LaterPagesHook(e) == "doNothing"

\* ----------------------------------------------------------------- actions
\* CertificateGeneratorN(...): __init__
Construct ==
  /\ pc = "New"
  /\ gen' = InitOf(entry, args)
  /\ pc' = "Constructed"
  /\ UNCHANGED <<entry, args, fs, content, error, page, overlayCalls, canvas,
                 outputFile, result, kept>>

\* the caller calls generate_certificate()
CallGenerateCertificate ==
  /\ pc = "Constructed"
  /\ pc' = "Assembling"
  /\ UNCHANGED <<entry, args, gen, fs, content, error, page, overlayCalls, canvas,
                 outputFile, result, kept>>

\* the native sizes of the image files among paths
Sizes(files, paths) == [p \in paths \cap ImageFiles |-> files[p]]

\* content = [...]: each call builds its list afresh
FreshContent_accumulate(previous, items) == previous \o items

FreshContent(previous, items) == items

\* What is remembered of the flows handed over so far: one of them, with
\* the generator, the arguments and the image sizes it came from. The first
\* flow is recorded; at each later one either the new flow takes its place or
\* the recorded one stays, marked as met again when the generator and the
\* arguments are the same and as passed over when they are not. Any two
\* flows of a behaviour are thus set side by side in some behaviour.
Remember(flows, e, a, sizes, items) ==
  LET new == [entry |-> e, args |-> a, sizes |-> sizes, content |-> items,
              again |-> FALSE, between |-> FALSE]
  IN IF flows = {} THEN {{new}}
     ELSE {{new},
           {IF r.entry = e /\ r.args = a
            THEN [r EXCEPT !.again = TRUE]
            ELSE [r EXCEPT !.between = TRUE] : r \in flows}}

\* generate_certificate: the list display that builds the flow
AssembleFlow ==
  /\ pc = "Assembling"
  /\ \E files \in Decoded(fs, FlowReads(entry, gen)) :
       LET items == ContentOf(entry, gen, files)
           raised == FirstErr(items)
       IN IF raised = <<>>
          THEN /\ content' = FreshContent(content, items)
               /\ pc' = "Finalizing"
               /\ fs' = files
               /\ error' = error
               /\ kept' \in Remember(kept, entry, args,
                                     Sizes(files, FlowReads(entry, gen)), content')
          ELSE /\ content' = content
               /\ pc' = "Failed"
               /\ fs' = IF raised[1].err = "ZeroDivisionError" THEN files ELSE fs
               /\ error' = raised[1].err
               /\ kept' = kept
  /\ UNCHANGED <<entry, args, gen, page, overlayCalls, canvas, outputFile, result>>

\* doc.build: the paginator renders one more page and runs that page's callback
RenderPage ==
  /\ pc = "Finalizing"
  /\ page < MaxPages
  /\ LET hook == IF page = 0 THEN FirstPageHook(entry) ELSE LaterPagesHook(entry)
     IN \E files \in Decoded(fs, IF hook = "draw_seal"
                                 THEN OverlayReads(entry, gen) ELSE {}) :
          LET drawn == IF hook = "draw_seal" THEN DrawSeal(entry, gen, files)
                       ELSE [draws |-> <<>>, err |-> "none"]
          IN /\ fs' = files
             /\ page' = page + 1
             /\ overlayCalls' = IF hook = "draw_seal"
                                THEN Append(overlayCalls, page + 1) ELSE overlayCalls
             /\ canvas' = canvas \o [i \in 1..Len(drawn.draws) |->
                                       [page |-> page + 1, draw |-> drawn.draws[i]]]
             /\ pc' = IF drawn.err = "none" THEN "Finalizing" ELSE "Failed"
             /\ error' = drawn.err
  /\ UNCHANGED <<entry, args, gen, content, outputFile, result, kept>>

\* doc.build: the flow is exhausted, the canvas is saved to file_path
Save ==
  /\ pc = "Finalizing"
  /\ page >= 1
  /\ pc' = "Written"
  /\ outputFile' = TRUE
  /\ UNCHANGED <<entry, args, gen, fs, content, error, page, overlayCalls, canvas,
                 result, kept>>

\* a direct call calculate_height(original_width, original_height, target_width)
CallCalculateHeight ==
  /\ pc = "Call"
  /\ LET r == calculate_height(args.original_width, args.original_height,
                               args.target_width)
     IN IF IsErr(r)
        THEN /\ pc' = "Raised"
             /\ error' = r.err
             /\ result' = result
        ELSE /\ pc' = "Returned"
             /\ error' = error
             /\ result' = r
  /\ UNCHANGED <<entry, args, gen, fs, content, page, overlayCalls, canvas, outputFile,
                 kept>>

Next ==
  \/ Construct
  \/ CallGenerateCertificate
  \/ AssembleFlow
  \/ RenderPage
  \/ Save
  \/ CallCalculateHeight

Spec == Init /\ [][Next]_vars

\* Every statement runs to completion before the next begins and nothing
\* suspends a call: a step that can be taken is taken.
\* The runs followed to their end start from these arguments: every way a
\* run can fail and succeed, on one value of the fields that only change text.
LiveArgs(e) ==
  CASE e = "CertificateGenerator" ->
         {a \in CG1_Args : /\ a.course_num = 1
                           /\ a.study_type = "ochnaya"
                           /\ a.certificate_num # "10-23-17-204"}
    [] e = "CertificateGenerator2" ->
         {a \in CG2_Args : /\ a.normative_duration.value = 4
                           /\ Len(a.semesters) <= 1
                           /\ a.certificate_num = "10-23-17-204"
                           /\ a.qr_code_data = "something"}
    [] e = "CertificateGenerator3" ->
         \* the signatures that exist are one and the same file
         {[a EXCEPT !.signature1_path = IF @ = MissingFile THEN @ ELSE "signature3.png",
                    !.signature2_path = IF @ = MissingFile THEN @ ELSE "signature3.png"] :
            a \in {b \in CG3_Args : b.type_of_study_ru = "ochnogo"}}
    [] e = "calculate_height" -> CalcArgs

FairInit ==
  /\ entry \in Generators \cup {"calculate_height"}
  /\ args \in LiveArgs(entry)
  /\ gen = NoObject
  /\ fs = [p \in ImageFiles |-> NotDecoded]
  /\ pc = IF entry = "calculate_height" THEN "Call" ELSE "New"
  /\ content = <<>>
  /\ error = "none"
  /\ page = 0
  /\ overlayCalls = <<>>
  /\ canvas = <<>>
  /\ outputFile = FALSE
  /\ result = Pending
  /\ kept = {}

FairSpec == FairInit /\ [][Next]_vars /\ WF_vars(Next)

\* A caller may run again: call generate_certificate once more on the object
\* it holds, or construct another generator from any bundle; between two runs
\* an image file may be replaced by another image. These are the bundles
\* of the repeated runs, one per generator, every path naming a file that
\* exists, all signatures in one file.
RepeatBundles ==
  {[entry |-> "CertificateGenerator",
    args |-> [a EXCEPT !.secretary_signature_path = "signature.png"]] :
     a \in {b \in CG1_Args : /\ b.course_num = 1
                             /\ b.study_type = "ochnaya"
                             /\ b.certificate_num = "1-1111-11111111-1"
                             /\ b.dean_signature_path = "signature.png"
                             /\ b.secretary_signature_path = "signature2.png"
                             /\ b.seal_image_path = "seal.jpg"}}
  \cup
  {[entry |-> "CertificateGenerator2",
    args |-> [a EXCEPT !.project_authority_sign_path = "signature.png"]] :
     a \in {b \in CG2_Args : /\ b.normative_duration = [type |-> "int", value |-> 4]
                             /\ b.semesters = <<>>
                             /\ b.certificate_num = "10-23-17-204"
                             /\ b.qr_code_data = "something"
                             /\ b.project_authority_sign_path = "signature2.png"
                             /\ b.seal_image_path = "seal.jpg"}}
  \cup
  {[entry |-> "CertificateGenerator3",
    args |-> [a EXCEPT !.signature1_path = "signature.png",
                       !.signature2_path = "signature.png",
                       !.signature3_path = "signature.png"]] :
     a \in {b \in CG3_Args : /\ b.type_of_study_ru = "ochnogo"
                             /\ b.seal_image_path = "seal.jpg"
                             /\ b.signature1_path = "signature.png"
                             /\ b.signature2_path = "signature2.png"}}

RepeatInit ==
  /\ \E b \in RepeatBundles : entry = b.entry /\ args = b.args
  /\ gen = NoObject
  /\ fs = [p \in ImageFiles |-> NotDecoded]
  /\ pc = "New"
  /\ content = <<>>
  /\ error = "none"
  /\ page = 0
  /\ overlayCalls = <<>>
  /\ canvas = <<>>
  /\ outputFile = FALSE
  /\ result = Pending
  /\ kept = {}

\* generate_certificate() called once more on the same object, after the
\* earlier call returned or raised
CallGenerateCertificateAgain ==
  /\ pc \in {"Written", "Failed"}
  /\ pc' = "Assembling"
  /\ error' = "none"
  /\ page' = 0
  /\ overlayCalls' = <<>>
  /\ canvas' = <<>>
  /\ UNCHANGED <<entry, args, gen, fs, content, outputFile, result, kept>>

\* another generator is about to be constructed, from any bundle
NewGenerator ==
  /\ pc \in {"Written", "Failed"}
  /\ \E b \in RepeatBundles : entry' = b.entry /\ args' = b.args
  /\ gen' = NoObject
  /\ pc' = "New"
  /\ error' = "none"
  /\ page' = 0
  /\ overlayCalls' = <<>>
  /\ canvas' = <<>>
  /\ UNCHANGED <<fs, content, outputFile, result, kept>>

\* between two runs the file at a path is replaced by another image: its
\* native size is whatever the next decode finds
ReplaceImageFile ==
  /\ pc \in {"Written", "Failed"}
  /\ \E p \in ImageFiles :
       /\ fs[p] # NotDecoded
       /\ fs' = [fs EXCEPT ![p] = NotDecoded]
  /\ UNCHANGED <<entry, args, gen, pc, content, error, page, overlayCalls, canvas,
                 outputFile, result, kept>>

RepeatNext ==
  \/ Construct
  \/ CallGenerateCertificate
  \/ AssembleFlow
  \/ RenderPage
  \/ Save
  \/ CallGenerateCertificateAgain
  \/ NewGenerator
  \/ ReplaceImageFile

RepeatSpec == RepeatInit /\ [][RepeatNext]_vars

\* ------------------------------------------------------------------ claims
IsNotSpacer(b) == b.kind # "Spacer"
IsImage(b) == b.kind = "Image"

\* a paragraph made by _add_image_paragraph
IsImageParagraph(b) ==
  /\ b.kind = "Paragraph"
  /\ Len(b.text) = 9
  /\ b.text[3] = " <img src='"

\* C1: in CertificateGenerator the flow handed to the paginator is, spacers
\* aside, title, reference number with certificate_num, student info with
\* '<course_num>-kursa', issue date, one barcode image, dean signature,
\* secretary signature, in this order whatever the field values.
C1_FlowOrderA ==
  (entry = "CertificateGenerator" /\ content # <<>>) =>
    LET flow == SelectSeq(content, IsNotSpacer)
    IN /\ Len(flow) = 7
       /\ \A i \in {1, 2, 3, 4, 6, 7} : flow[i].kind = "Paragraph"
       /\ flow[1].text = <<"<font size=12 color=black>", args.ministry, "<br/>",
                           args.university_name, "<br/>", args.direction_name,
                           "</font>">>
       /\ flow[2].text[1] = "<font size=12 color=black>SPRAVKA No "
       /\ flow[2].text[2] = args.certificate_num
       /\ \E i \in 1..(Len(flow[3].text) - 1) :
            /\ flow[3].text[i] = ToString(args.course_num)
            /\ flow[3].text[i + 1] = "-kursa"
       /\ flow[4].text[1] =
            "<font size=10 color=black>Spravka vydana po mestu trebovaniya.<br/><br/>"
       /\ flow[4].text[2] = args.issue_date
       /\ flow[5].kind = "Image"
       /\ flow[5].data.symbology = "code128"
       /\ IsImageParagraph(flow[6])
       /\ flow[6].text[2] = "Dekan (Direktor):"
       /\ flow[6].text[4] = args.dean_signature_path
       /\ IsImageParagraph(flow[7])
       /\ flow[7].text[2] = "Sekretar (metodist) fakulteta:"
       /\ flow[7].text[4] = args.secretary_signature_path

C1_Witness ==
  /\ entry = "CertificateGenerator"
  /\ pc = "Written"
  /\ args.certificate_num = "1-1111-11111111-1"
  /\ args.course_num = 3
  /\ args.study_type = "ochnaya"
  /\ Len(content) = 16

\* the payload of the scannable code of the flow, and the number shown in text
CodePayload == SelectSeq(content, IsImage)[1].data.payload
VisibleNumber ==
  IF entry = "CertificateGenerator" THEN content[3].text[2] ELSE content[11].text[2]

\* C2 as stated: in CertificateGenerator and CertificateGenerator2 the payload
\* of the embedded code is the certificate number shown in the text.
C2_PayloadIsVisibleNumber ==
  (entry \in {"CertificateGenerator", "CertificateGenerator2"} /\ content # <<>>) =>
    CodePayload = VisibleNumber

\* C2 amended: the barcode of CertificateGenerator carries the certificate_num
\* shown in the text; the QR code of CertificateGenerator2 carries the caller's
\* qr_code_data, which is the certificate_num shown in the text exactly when
\* the caller passes the same string for both.
C2_PayloadSources ==
  /\ (entry = "CertificateGenerator" /\ content # <<>>) =>
       /\ CodePayload = args.certificate_num
       /\ VisibleNumber = args.certificate_num
  /\ (entry = "CertificateGenerator2" /\ content # <<>>) =>
       /\ CodePayload = args.qr_code_data
       /\ VisibleNumber = args.certificate_num
       /\ (CodePayload = VisibleNumber) <=> (args.qr_code_data = args.certificate_num)

C2_Witness ==
  /\ entry = "CertificateGenerator2"
  /\ pc = "Written"
  /\ args.qr_code_data = "something"
  /\ CodePayload = "something"
  /\ VisibleNumber = "10-23-17-204"

\* the images the overlay callback draws
OverlayPaths ==
  IF entry = "CertificateGenerator3"
  THEN {args.seal_image_path, args.signature1_path, args.signature2_path,
        args.signature3_path}
  ELSE {args.seal_image_path}

\* C3: when an overlay image path names no file, generate_certificate ends in
\* an error that reaches the caller, never in Written, and no file is written.
C3_MissingOverlayFails ==
  (entry \in Generators /\ OverlayPaths \ ImageFiles # {}) =>
    /\ pc # "Written"
    /\ outputFile = FALSE
    /\ page >= 1 => (pc = "Failed" /\ error # "none")
    /\ (page >= 1 /\ args.seal_image_path \notin ImageFiles) => error = "OSError"
    /\ pc = "Failed" => error # "none"

C3_Witness ==
  /\ entry = "CertificateGenerator"
  /\ args.seal_image_path = MissingFile
  /\ content # <<>>
  /\ page = 1
  /\ pc = "Failed"
  /\ error = "OSError"
  /\ outputFile = FALSE

\* C4: the suffix after normative_duration d in the study-period block is
\* "god" exactly when d = 1, "goda" exactly when 1 < d < 5, and "let" exactly
\* when d >= 5 or d <= 0.
C4_Declination ==
  (entry = "CertificateGenerator2" /\ content # <<>>) =>
    LET d == args.normative_duration.value
        text == content[5].text
    IN /\ text[8] = ToString(d)
       /\ (text[10] = "god") <=> (d = 1)
       /\ (text[10] = "goda") <=> (1 < d /\ d < 5)
       /\ (text[10] = "let") <=> (d >= 5 \/ d <= 0)

C4_Witness ==
  /\ entry = "CertificateGenerator2"
  /\ content # <<>>
  /\ args.normative_duration.value = 5
  /\ content[5].text[10] = "let"

\* C5: for positive sizes calculate_height returns h with
\* h * native_width = target_width * native_height, and every signature
\* paragraph of CertificateGenerator and CertificateGenerator2 carries
\* width = 80 and that h for the decoded size of its image.
C5_AspectRatio ==
  /\ (entry = "calculate_height" /\ args.original_width > 0
        /\ args.original_height > 0 /\ args.target_width > 0 /\ pc # "Call") =>
       /\ pc = "Returned"
       /\ result.num * args.original_width
            = args.target_width * args.original_height * result.den
  /\ (entry \in {"CertificateGenerator", "CertificateGenerator2"}) =>
       \A i \in 1..Len(content) :
         IsImageParagraph(content[i]) =>
           LET size == fs[content[i].text[4]]
           IN /\ size.w > 0
              /\ size.h > 0
              /\ content[i].text[6] = "80"
              /\ content[i].text[8] = FormatFloat(Float(80 * size.h, size.w))

C5_Witness ==
  /\ entry = "calculate_height"
  /\ args = [original_width |-> 2, original_height |-> 1, target_width |-> 3]
  /\ pc = "Returned"
  /\ result = [num |-> 3, den |-> 2]

\* C6: calculate_height with native_width = 0 raises and returns no height.
C6_ZeroWidthRaises ==
  (entry = "calculate_height" /\ args.original_width = 0) =>
    /\ pc \in {"Call", "Raised"}
    /\ result = Pending
    /\ pc = "Raised" => error = "ZeroDivisionError"

C6_Witness ==
  /\ entry = "calculate_height"
  /\ args = [original_width |-> 0, original_height |-> 2, target_width |-> 3]
  /\ pc = "Raised"
  /\ error = "ZeroDivisionError"

\* C7 as stated: an argument of the wrong shape is rejected by __init__, so no
\* TypeError or KeyError of the input's shape reaches the caller from a
\* generator that was constructed.
C7_ShapeErrorsAtConstruction ==
  (pc = "Failed" /\ error \in {"TypeError", "KeyError"}) => gen = NoObject

\* C8: the periods block is its heading followed by one line per semesters
\* entry, the i-th line giving the i-th entry's name, start and end.
C8_PeriodLines ==
  (entry = "CertificateGenerator2" /\ content # <<>>) =>
    LET text == content[9].text
        n == Len(args.semesters)
    IN /\ content[9].kind = "Paragraph"
       /\ Len(text) = 1 + 6 * n
       /\ text[1] =
            "<font size=12 color=black>Sroki obucheniya v tekushchem uchebnom godu:</font>"
       /\ \A i \in 1..n :
            /\ text[6 * i - 4] = "<br/>- "
            /\ text[6 * i - 3] = args.semesters[i].name
            /\ text[6 * i - 2] = " s "
            /\ text[6 * i - 1] = args.semesters[i].start
            /\ text[6 * i] = " po "
            /\ text[6 * i + 1] = args.semesters[i].end

C8_Witness ==
  /\ entry = "CertificateGenerator2"
  /\ pc = "Written"
  /\ Len(args.semesters) = 3
  /\ args.semesters[1].name = "vesenniy semestr"
  /\ args.semesters[2].name = "osenniy semestr"
  /\ args.semesters[3].name = "vesenniy semestr"
  /\ Len(content[9].text) = 19

\* the drawings a complete overlay leaves, at their literal page coordinates
ExpectedOverlay ==
  CASE entry = "CertificateGenerator" -> <<<<"seal.jpg", 393, 260>>>>
    [] entry = "CertificateGenerator2" -> <<<<"seal.jpg", 393, 125>>>>
    [] entry = "CertificateGenerator3" ->
         <<<<"seal.jpg", 343, 300>>, <<"signature.png", 100, 430>>,
           <<"signature2.png", 200, 430>>, <<"signature3.png", 300, 430>>>>

\* C9: the overlay callback runs once, on page 1 and on no later page, however
\* many pages are rendered; it draws the seal, and in CertificateGenerator3
\* the three signatures too, at coordinates fixed in the code.
C9_OverlayOnce ==
  entry \in Generators =>
    /\ Len(overlayCalls) <= 1
    /\ \A i \in 1..Len(overlayCalls) : overlayCalls[i] = 1
    /\ page >= 1 => Len(overlayCalls) = 1
    /\ \A i \in 1..Len(canvas) : canvas[i].page = 1
    /\ pc = "Written" =>
         /\ Len(canvas) = Len(ExpectedOverlay)
         /\ \A i \in 1..Len(canvas) :
              <<canvas[i].draw.image, canvas[i].draw.x, canvas[i].draw.y>>
                = ExpectedOverlay[i]

C9_Witness ==
  /\ entry = "CertificateGenerator3"
  /\ pc = "Written"
  /\ page >= 2
  /\ overlayCalls = <<1>>
  /\ Len(canvas) = 4

\* C10: type_of_study_kg is set by __init__ from type_of_study_ru alone,
\* "kunduzgu" for "ochnogo" and "kechki (syrttan okuu)" for every other value,
\* without an error, and keeps that value.
C10_StudyModeWord ==
  (entry = "CertificateGenerator3" /\ pc # "New") =>
    /\ gen # NoObject
    /\ gen.type_of_study_ru = args.type_of_study_ru
    /\ (args.type_of_study_ru = "ochnogo") => gen.type_of_study_kg = "kunduzgu"
    /\ (args.type_of_study_ru # "ochnogo") =>
         gen.type_of_study_kg = "kechki (syrttan okuu)"
    /\ pc \in {"Constructed", "Assembling"} => error = "none"

C10_Witness ==
  /\ entry = "CertificateGenerator3"
  /\ args.type_of_study_ru = "vechernego"
  /\ gen # NoObject
  /\ gen.type_of_study_kg = "kechki (syrttan okuu)"
  /\ pc = "Written"

\* the inputs on which building the flow raises: an unencodable barcode
\* payload or a signature path that names no file
FlowFault ==
  \/ /\ entry = "CertificateGenerator"
     /\ \/ args.certificate_num \in NonAsciiPayloads
        \/ args.dean_signature_path \notin ImageFiles
        \/ args.secretary_signature_path \notin ImageFiles
  \/ /\ entry = "CertificateGenerator2"
     /\ args.project_authority_sign_path \notin ImageFiles

\* an image among paths was decoded with a zero width or height
ZeroSized(files, paths) ==
  \E p \in paths \cap ImageFiles :
    files[p] \in Dims /\ (files[p].w = 0 \/ files[p].h = 0)

\* one step of a generation run, as the pipeline allows it
PipelineStep ==
  entry \in Generators =>
  /\ \/ pc = "New" /\ pc' = "Constructed"
     \/ pc = "Constructed" /\ pc' \in {"Assembling", "Failed"}
     \/ pc = "Assembling" /\ pc' \in {"Finalizing", "Failed"}
     \/ pc = "Finalizing" /\ pc' \in {"Finalizing", "Written", "Failed"}
  /\ pc' = "Failed" => error' # "none"
  /\ (pc = "Assembling" /\ (FlowFault \/ ZeroSized(fs', FlowReads(entry, gen))))
       => pc' = "Failed"
  /\ (pc = "Finalizing" /\ page = 0
        /\ (OverlayPaths \ ImageFiles # {}
              \/ ZeroSized(fs', IF entry = "CertificateGenerator3"
                                THEN CG3_reads(gen) ELSE {})))
       => pc' = "Failed"

\* C11: a generation run only moves forward along Constructed, Assembling,
\* Finalizing, Written, or to Failed; a missing file, an unencodable payload
\* or a zero-sized image sends the step that meets it to Failed; Written and
\* Failed are left by no step, Written is never reached after an error, and
\* every run reaches Written or Failed.
C11_SingleShot ==
  /\ [][PipelineStep]_vars
  /\ [](pc = "Written" => error = "none")
  /\ <>(entry \in Generators => pc \in {"Written", "Failed"})

C11_Witness ==
  /\ entry = "CertificateGenerator3"
  /\ content # <<>>
  /\ page = 1
  /\ pc = "Failed"
  /\ error = "ZeroDivisionError"
  /\ outputFile = FALSE

\* C12 as stated: every raster the overlay callback draws, the seal and the
\* signatures of CertificateGenerator3, has display_width / display_height
\* equal to native_width / native_height when its native size is positive.
C12_OverlayAspectRatio ==
  entry \in Generators =>
    \A i \in 1..Len(canvas) :
      LET d == canvas[i].draw
          native == fs[d.image]
      IN (native \in Dims /\ native.w > 0 /\ native.h > 0) =>
           IF d.image = args.seal_image_path
           THEN d.width * native.h = d.height * native.w
           ELSE d.width * d.height.den * native.h = d.height.num * native.w

\* the flow of the current call stands: it has been handed to doc.build
FlowStands == pc \in {"Finalizing", "Written"}

\* the native sizes of the files the current flow was assembled from
SizesRead == Sizes(fs, FlowReads(entry, gen))

\* The statement as written: two assemblies from the same generator and
\* bundle give the same flow, whatever lies outside the bundle.
C13_SameBundleSameFlow ==
  FlowStands =>
    \A r \in kept : (r.entry = entry /\ r.args = args) => r.content = content

\* C13: two assemblies from the same generator and bundle, the image files
\* the bundle names having the same native sizes both times, give the same
\* flow, whatever ran in between: other bundles, other generators, a second
\* call on the same object, failed calls, files replaced and put back.
C13_SameBundleAndImagesSameFlow ==
  FlowStands =>
    \A r \in kept :
      (r.entry = entry /\ r.args = args /\ r.sizes = SizesRead) => r.content = content

\* a second flow of CertificateGenerator has been handed over and the file
\* written, after a flow of another bundle was handed over in between: the
\* first flow is still the recorded one, and the image sizes are the same
C13_Witness ==
  /\ entry = "CertificateGenerator"
  /\ pc = "Written"
  /\ \E r \in kept : /\ r.entry = entry /\ r.args = args
                     /\ r.again /\ r.between
                     /\ r.sizes = SizesRead /\ r.content = content

====
